---- MODULE Spec2Model ----
(***************************************************************************)
(* A model of magicArray (dougwithseismic/magic-array): a live array        *)
(* `items`, an undo/redo `history` of snapshots with per-entry checkpoints, *)
(* and the cursor `historyIndex`.                                           *)
(*                                                                          *)
(* JavaScript arrays are objects: `items = history[i].items` (jump, goTo)   *)
(* binds the live variable to the very array stored in the history entry,   *)
(* whereas `[...x]` makes a fresh array.  The variable itemsRef records     *)
(* which history entry, if any, shares its array object with `items`; an    *)
(* in-place mutation of `items` then shows in that entry as well.           *)
(* Indices are 0-based as in the source; At(h, i) reads h[i].               *)
(*                                                                          *)
(* `listeners` is the registry shared by addListener and history.subscribe; *)
(* notes records the listener calls made during the last call, last the     *)
(* call itself (operation, argument, whether it threw).                     *)
(*                                                                          *)
(* `actions` is the queue of the wrapper returned by lazy(); evaluating is  *)
(* the position of evaluate() in that queue (0 when it is not running).     *)
(***************************************************************************)
EXTENDS Integers, Sequences, FiniteSets, TLC

VARIABLES items, history, historyIndex, itemsRef, validationFn,
          listeners, removeFns, notes, last, actions, evaluating, steps, sc

vars == <<items, history, historyIndex, itemsRef, validationFn,
          listeners, removeFns, notes, last, actions, evaluating, steps, sc>>

(* ------------------------------ bounds --------------------------------- *)
MaxLen == 2          \* longest live array explored
MaxHistory == 3      \* longest history explored
MaxCheckpoints == 1  \* most checkpoints explored per entry
MaxJump == 1         \* cursor explored within -MaxJump .. MaxHistory - 1 + MaxJump
MaxSteps == 3        \* calls explored after construction (counted by steps)
MaxListeners == 2    \* most registrations explored through addListener/subscribe

Elems == {1, 2}
Labels == {"a", "b"}
NoLabel == "undefined"      \* saveCheckpoint() without a label
NoValidation == "undefined" \* no validationFn given
NoRef == -1                 \* `items` shares its array with no history entry
Omitted == <<>>             \* an optional argument left out; <<v>> is one given
Arg(opt, default) == IF opt = Omitted THEN default ELSE opt[1]

Min(a, b) == IF a < b THEN a ELSE b
Max(a, b) == IF a > b THEN a ELSE b

(* ------------------------ JavaScript array algebra ---------------------- *)
\* a relative index argument (negative counts from the end), clamped to 0..len
RelIndex(k, len) == IF k < 0 THEN Max(len + k, 0) ELSE Min(k, len)

\* Array.prototype.splice: the array that remains
SpliceJS(s, start, deleteCount, addItems) ==
    LET from == RelIndex(start, Len(s))
        del  == Min(Max(deleteCount, 0), Len(s) - from)
    IN  SubSeq(s, 1, from) \o addItems \o SubSeq(s, from + del + 1, Len(s))

\* Array.prototype.fill
FillJS(s, value, start, end) ==
    LET k     == RelIndex(Arg(start, 0), Len(s))
        final == RelIndex(Arg(end, Len(s)), Len(s))
    IN  [i \in 1..Len(s) |-> IF k <= i - 1 /\ i - 1 < final THEN value ELSE s[i]]

\* Array.prototype.copyWithin
CopyWithinJS(s, target, start, end) ==
    LET to    == RelIndex(target, Len(s))
        from  == RelIndex(start, Len(s))
        final == RelIndex(Arg(end, Len(s)), Len(s))
        count == Min(final - from, Len(s) - to)
    IN  [i \in 1..Len(s) |->
            IF to <= i - 1 /\ i - 1 < to + count THEN s[from + (i - 1 - to) + 1] ELSE s[i]]

ReverseJS(s) == [i \in 1..Len(s) |-> s[Len(s) + 1 - i]]

RECURSIVE InsertSorted(_, _, _)
InsertSorted(x, s, desc) ==
    IF s = <<>> THEN <<x>>
    ELSE IF (IF desc THEN x > Head(s) ELSE x < Head(s))
         THEN <<x>> \o s
         ELSE <<Head(s)>> \o InsertSorted(x, Tail(s), desc)

\* Array.prototype.sort; the default order compares the elements as strings,
\* which on the single digits of Elems is the numeric order
RECURSIVE SortJS(_, _)
SortJS(s, compareFn) ==
    IF s = <<>> THEN <<>>
    ELSE InsertSorted(s[Len(s)], SortJS(SubSeq(s, 1, Len(s) - 1), compareFn), compareFn = <<"desc">>)

RECURSIVE FilterJS(_, _)
FilterJS(s, fn) ==
    IF s = <<>> THEN <<>>
    ELSE (IF fn = "gt1" => Head(s) > 1 THEN <<Head(s)>> ELSE <<>>) \o FilterJS(Tail(s), fn)

\* a filter that lets every item through
AdmittedUnchecked(xs) == xs

\* the items that survive `if (validationFn) itemsToPush = itemsToPush.filter(validationFn)`
Admitted(xs) == IF validationFn # NoValidation THEN FilterJS(xs, validationFn) ELSE xs

(* ----------------------------- history --------------------------------- *)
Hole == [undefined |-> TRUE]   \* an empty array slot (reads as undefined)
Null == [null |-> TRUE]        \* a JSON null

At(h, i) == h[i + 1]
\* history[i] is an object, so that history[i].items does not throw
IsEntry(h, i) == 0 <= i /\ i < Len(h) /\ "items" \in DOMAIN At(h, i)

NewEntry(its) == [items |-> its, checkpoints |-> <<>>]

getItems == items
listCheckpoints == At(history, historyIndex).checkpoints

\* magicArray(initialItems, validationFn)
Create ==
    /\ items \in {<<>>, <<2, 1>>}
    /\ history = <<NewEntry(items)>>
    /\ historyIndex = 0
    /\ itemsRef = NoRef
    /\ validationFn \in {NoValidation, "gt1"}
    /\ listeners = <<>>
    /\ removeFns = {}
    /\ notes = <<>>
    /\ last = [op |-> "create", arg |-> 0, threw |-> FALSE]
    /\ actions = <<>>
    /\ evaluating = 0
    /\ steps = 0

Init ==
    /\ Create
    /\ sc = [phase |-> "off"]

(* ------------------------------ listeners ------------------------------ *)
\* Listener functions are named by what their body does when called with an
\* event other than 'initialize':
\*   "f", "g"  only look at their arguments
\*   "u"       calls the remove function that addListener(u) returned
\*   "a"       calls addListener(g) unless g is registered already
\* removeFns holds the listeners whose remove function the caller has got;
\* notes lists the listener calls made during the last call of the public
\* surface, each with what the listener was passed and what it could read
\* of the history at that moment.
ListenerFns == {"f", "u", "a"}

Registered(ls, listener) == \E i \in 1..Len(ls) : ls[i] = listener

\* const index = listeners.indexOf(listener); if (index !== -1) listeners.splice(index, 1)
RemoveListener(ls, listener) ==
    IF Registered(ls, listener)
    THEN LET index == CHOOSE i \in 1..Len(ls) :
                        /\ ls[i] = listener
                        /\ \A j \in 1..(i - 1) : ls[j] # listener
         IN  SubSeq(ls, 1, index - 1) \o SubSeq(ls, index + 1, Len(ls))
    ELSE ls

\* one call listener(event, payload), made while the history is h with cursor c
Seen(listener, event, payload, h, c) ==
    [to |-> listener, event |-> event, payload |-> payload,
     cursor |-> c, length |-> Len(h),
     snapshot |-> IF IsEntry(h, c) THEN <<At(h, c).items>> ELSE <<>>]

\* listener(event, payload) run on the registry ls with the live array `live`:
\* the registry it leaves and the listener calls made
Invoke(listener, ls, event, payload, live, h, c) ==
    LET seen == <<Seen(listener, event, payload, h, c)>>
    IN  IF event = "initialize" \/ listener \in {"f", "g"}
        THEN [listeners |-> ls, notes |-> seen]
        ELSE IF listener = "u"
        THEN [listeners |-> IF "u" \in removeFns THEN RemoveListener(ls, "u") ELSE ls,
              notes |-> seen]
        ELSE IF Registered(ls, "g")
        THEN [listeners |-> ls, notes |-> seen]
        ELSE [listeners |-> Append(ls, "g"),
              notes |-> seen \o <<Seen("g", "initialize", live, h, c)>>]

\* listeners.forEach(...): indices 0 .. n-1 of the length n read at the start,
\* each looked up in the array as it is when its turn comes
RECURSIVE ForEach(_, _, _, _, _, _, _, _, _)
ForEach(ls, i, n, event, payload, live, h, c, called) ==
    IF i >= n THEN [listeners |-> ls, notes |-> called]
    ELSE IF i >= Len(ls) THEN ForEach(ls, i + 1, n, event, payload, live, h, c, called)
    ELSE LET r == Invoke(ls[i + 1], ls, event, payload, live, h, c)
         IN  ForEach(r.listeners, i + 1, n, event, payload, live, h, c, called \o r.notes)

Broadcast(event, payload, live, h, c) ==
    /\ IF listeners = <<>>
       THEN notes' = <<>> /\ UNCHANGED listeners
       ELSE LET r == ForEach(listeners, 0, Len(listeners), event, payload, live, h, c, <<>>)
            IN  listeners' = r.listeners /\ notes' = r.notes
    /\ UNCHANGED removeFns

\* listeners.forEach((listener) => listener(event, [...items]))
notifyListeners(event, live, h, c) == Broadcast(event, live, live, h, c)

\* listeners.forEach((listener) => listener(action, history))
notifySubscribers(action, payload, live, h, c) == Broadcast(action, payload, live, h, c)

\* a call that reaches no notification
Silent ==
    /\ notes' = <<>>
    /\ UNCHANGED <<listeners, removeFns>>

addListener(listener) ==
    LET r == Invoke(listener, Append(listeners, listener), "initialize", items, items,
                    history, historyIndex)
    IN  /\ Len(listeners) < MaxListeners
        /\ listeners' = r.listeners
        /\ notes' = r.notes
        /\ removeFns' = removeFns \cup {listener}
        /\ UNCHANGED <<items, history, historyIndex, itemsRef, validationFn>>
        /\ last' = [op |-> "addListener", arg |-> listener, threw |-> FALSE]

\* the function returned by addListener(listener)
remove(listener) ==
    /\ listener \in removeFns
    /\ listeners' = RemoveListener(listeners, listener)
    /\ notes' = <<>>
    /\ UNCHANGED <<items, history, historyIndex, itemsRef, validationFn, removeFns>>
    /\ last' = [op |-> "remove", arg |-> listener, threw |-> FALSE]

\* history.subscribe(listener)
subscribe(listener) ==
    /\ Len(listeners) < MaxListeners
    /\ listeners' = Append(listeners, listener)
    /\ notes' = <<>>
    /\ UNCHANGED <<items, history, historyIndex, itemsRef, validationFn, removeFns>>
    /\ last' = [op |-> "subscribe", arg |-> listener, threw |-> FALSE]

(* ------------------------- mutating methods ---------------------------- *)
\* the history as an in-place change of the live array to `new` leaves it:
\* the entry sharing the array object changes with it
Shared(new) ==
    IF itemsRef = NoRef THEN history ELSE [history EXCEPT ![itemsRef + 1].items = new]

\* updateHistory, run on the history h with the live array already changed to
\* `new`; explored while the history stays within MaxHistory entries
updateHistory(h, new) ==
    LET kept == SubSeq(h, 1, RelIndex(historyIndex + 1, Len(h)))
    IN  /\ Len(kept) < MaxHistory
        /\ history' = Append(kept, NewEntry(new))
        /\ historyIndex' = Len(kept)
        /\ itemsRef' = IF itemsRef < Len(kept) THEN itemsRef ELSE NoRef

\* the wrapper of mutatingMethods: originalMethod(...args); updateHistory().
\* originalMethod changes the live array to `new` and calls
\* notifyListeners(event) before it returns, so the listeners run on the
\* history as it is before updateHistory
Mutating(op, arg, event, new) ==
    /\ Len(new) <= MaxLen
    /\ items' = new
    /\ notifyListeners(event, new, Shared(new), historyIndex)
    /\ updateHistory(Shared(new), new)
    /\ UNCHANGED validationFn
    /\ last' = [op |-> op, arg |-> arg, at |-> historyIndex, threw |-> FALSE,
                returned |-> IF op \in {"push", "unshift"} THEN <<Len(new)>> ELSE Omitted]

push(xs) == Mutating("push", xs, "add", items \o Admitted(xs))

pop == Mutating("pop", Omitted, "remove", SubSeq(items, 1, Len(items) - 1))

shift == Mutating("shift", Omitted, "shift", SubSeq(items, 2, Len(items)))

unshift(xs) == Mutating("unshift", Omitted, "unshift", xs \o items)

splice(start, deleteCount, addItems) ==
    Mutating("splice", Omitted, "splice",
             SpliceJS(items, start,
                      Arg(deleteCount, Len(items) - start),
                      addItems))

reverse == Mutating("reverse", Omitted, "reverse", ReverseJS(items))

sort(compareFn) == Mutating("sort", Omitted, "sort", SortJS(items, compareFn))

fill(value, start, end) ==
    Mutating("fill", Omitted, "fill", FillJS(items, value, start, end))

copyWithin(target, start, end) ==
    Mutating("copyWithin", Omitted, "copyWithin", CopyWithinJS(items, target, start, end))

\* batchPush is not among mutatingMethods: no updateHistory
batchPush(xs) ==
    LET new == items \o Admitted(xs)
    IN  /\ Len(new) <= MaxLen
        /\ items' = new
        /\ history' = Shared(new)
        /\ notifyListeners("batchAdd", new, Shared(new), historyIndex)
        /\ UNCHANGED <<historyIndex, itemsRef, validationFn>>
        /\ last' = [op |-> "batchPush", arg |-> xs, threw |-> FALSE]

setValidation(fn) ==
    /\ validationFn' = fn
    /\ UNCHANGED <<items, history, historyIndex, itemsRef>>
    /\ Silent
    /\ last' = [op |-> "setValidation", arg |-> 0, threw |-> FALSE]

(* --------------------------- serialization ------------------------------ *)
\* JSON text is modelled by what JSON.parse makes of it: Malformed throws,
\* [json |-> s] denotes the array s, NotArray a value that is no array (an
\* object, which `...` cannot spread).  Objects are records, arrays are
\* sequences; a key whose value is undefined is left out by JSON.stringify
\* and an empty array slot is written as null.
Malformed == [malformed |-> TRUE]
NotArray == [object |-> TRUE]

StringifyCheckpoint(cp) ==
    IF cp.label = NoLabel THEN [items |-> cp.items]
    ELSE [label |-> cp.label, items |-> cp.items]

StringifyEntry(e) ==
    IF "items" \in DOMAIN e
    THEN [items |-> e.items,
          checkpoints |-> [i \in 1..Len(e.checkpoints) |-> StringifyCheckpoint(e.checkpoints[i])]]
    ELSE Null

\* history.toJSON(): JSON.stringify(history)
toJSON == [json |-> [i \in 1..Len(history) |-> StringifyEntry(history[i])]]

\* arrayActions.serialize(): JSON.stringify(items)
serialize == [json |-> items]

\* what reading the parsed objects gives back: a missing label reads as undefined
ParseCheckpoint(j) ==
    [label |-> IF "label" \in DOMAIN j THEN j.label ELSE NoLabel, items |-> j.items]

\* a rebuilt entry that loses its checkpoints
ParseEntryBare(j) ==
    IF "items" \in DOMAIN j THEN [items |-> j.items, checkpoints |-> <<>>] ELSE j

ParseEntry(j) ==
    IF "items" \in DOMAIN j
    THEN [items |-> j.items,
          checkpoints |-> [i \in 1..Len(j.checkpoints) |-> ParseCheckpoint(j.checkpoints[i])]]
    ELSE j

\* a deserialize that empties the live array when the text does not parse
deserializeReset(jsonString) ==
    /\ IF "json" \in DOMAIN jsonString
       THEN /\ items' = jsonString.json
            /\ itemsRef' = NoRef
            /\ notifyListeners("deserialize", jsonString.json, history, historyIndex)
       ELSE /\ items' = <<>>
            /\ itemsRef' = NoRef
            /\ Silent
    /\ UNCHANGED <<history, historyIndex, validationFn>>
    /\ last' = [op |-> "deserialize", arg |-> IF "json" \in DOMAIN jsonString THEN 1 ELSE 0,
                threw |-> FALSE]

\* try { items = JSON.parse(jsonString); notifyListeners('deserialize') }
\* catch (e) { console.error(...) }
deserialize(jsonString) ==
    /\ IF "json" \in DOMAIN jsonString
       THEN /\ items' = jsonString.json
            /\ itemsRef' = NoRef
            /\ notifyListeners("deserialize", jsonString.json, history, historyIndex)
       ELSE /\ UNCHANGED <<items, itemsRef>>
            /\ Silent
    /\ UNCHANGED <<history, historyIndex, validationFn>>
    /\ last' = [op |-> "deserialize", arg |-> IF "json" \in DOMAIN jsonString THEN 1 ELSE 0,
                threw |-> FALSE]

(* --------------------------- historyActions ----------------------------- *)
\* a step of previous/next to `target`: history[target].items is read only
\* when the cursor moves, and throws when there is no entry
Step(op, target) ==
    LET moves == target # historyIndex
        threw == moves /\ ~IsEntry(history, target)
    IN  /\ historyIndex' = target
        /\ UNCHANGED <<items, history, itemsRef, validationFn>>
        /\ IF threw THEN Silent
           ELSE notifySubscribers(op, IF moves THEN At(history, target).items ELSE items,
                                  items, history, target)
        /\ last' = [op |-> op, arg |-> historyIndex, threw |-> threw]

previous == Step("previous", IF historyIndex > 0 THEN historyIndex - 1 ELSE historyIndex)

next == Step("next", IF historyIndex < Len(history) - 1 THEN historyIndex + 1 ELSE historyIndex)

\* history.length = 1: truncates, or pads an empty history with an empty slot
clean ==
    LET cleaned == IF history = <<>> THEN <<Hole>> ELSE <<history[1]>>
    IN  /\ history' = cleaned
        /\ historyIndex' = 0
        /\ itemsRef' = IF itemsRef = 0 THEN 0 ELSE NoRef
        /\ UNCHANGED <<items, validationFn>>
        /\ notifySubscribers("clean", cleaned, items, cleaned, 0)
        /\ last' = [op |-> "clean", arg |-> 0, threw |-> FALSE]

\* a jump/goTo that checks the target first and leaves the cursor alone
MoveToChecked(op, target) ==
    /\ -MaxJump <= target /\ target <= MaxHistory - 1 + MaxJump
    /\ IF IsEntry(history, target)
       THEN /\ historyIndex' = target
            /\ items' = At(history, target).items
            /\ itemsRef' = target
            /\ notifySubscribers(op, At(history, target).items, At(history, target).items,
                                 history, target)
       ELSE /\ UNCHANGED <<historyIndex, items, itemsRef>>
            /\ Silent
    /\ UNCHANGED <<history, validationFn>>
    /\ last' = [op |-> op, arg |-> target,
                threw |-> ~IsEntry(history, target)]

\* historyIndex = target; items = history[historyIndex].items, which throws
\* with the cursor already moved when there is no such entry
MoveTo(op, target) ==
    /\ -MaxJump <= target /\ target <= MaxHistory - 1 + MaxJump
    /\ historyIndex' = target
    /\ IF IsEntry(history, target)
       THEN /\ items' = At(history, target).items
            /\ itemsRef' = target
            /\ notifySubscribers(op, At(history, target).items, At(history, target).items,
                                 history, target)
       ELSE /\ UNCHANGED <<items, itemsRef>>
            /\ Silent
    /\ UNCHANGED <<history, validationFn>>
    /\ last' = [op |-> op, arg |-> target,
                threw |-> ~IsEntry(history, target)]

jump(number) == MoveTo("jump", historyIndex + number)

goTo(index) == MoveTo("goTo", index)

\* the checkpoint pushed onto the first entry instead of the current one
saveCheckpointOnFirst(label) ==
    /\ IF IsEntry(history, historyIndex)
       THEN LET saved == [history EXCEPT ![1].checkpoints =
                                Append(@, [label |-> label, items |-> items])]
            IN  /\ Len(listCheckpoints) < MaxCheckpoints
                /\ history' = saved
                /\ notifySubscribers("saveCheckpoint", At(saved, historyIndex).checkpoints,
                                     items, saved, historyIndex)
       ELSE /\ UNCHANGED history
            /\ Silent
    /\ UNCHANGED <<items, historyIndex, itemsRef, validationFn>>
    /\ last' = [op |-> "saveCheckpoint", arg |-> label,
                threw |-> ~IsEntry(history, historyIndex)]

saveCheckpoint(label) ==
    /\ IF IsEntry(history, historyIndex)
       THEN LET saved == [history EXCEPT ![historyIndex + 1].checkpoints =
                                Append(@, [label |-> label, items |-> items])]
            IN  /\ Len(listCheckpoints) < MaxCheckpoints
                /\ history' = saved
                /\ notifySubscribers("saveCheckpoint", At(saved, historyIndex).checkpoints,
                                     items, saved, historyIndex)
       ELSE /\ UNCHANGED history
            /\ Silent
    /\ UNCHANGED <<items, historyIndex, itemsRef, validationFn>>
    /\ last' = [op |-> "saveCheckpoint", arg |-> label,
                threw |-> ~IsEntry(history, historyIndex)]

\* checkpoints.findIndex((cp) => cp.label === label), 1-based, 0 for none
FindCheckpoint(cps, label) ==
    IF \E i \in 1..Len(cps) : cps[i].label = label
    THEN CHOOSE i \in 1..Len(cps) :
            /\ cps[i].label = label
            /\ \A j \in 1..(i - 1) : cps[j].label # label
    ELSE 0

\* notifies only inside `if (checkpointIndex !== -1)`
removeCheckpoint(label) ==
    /\ IF IsEntry(history, historyIndex) /\ FindCheckpoint(listCheckpoints, label) # 0
       THEN LET removed == [history EXCEPT ![historyIndex + 1].checkpoints =
                                SpliceJS(@, FindCheckpoint(@, label) - 1, 1, <<>>)]
            IN  /\ history' = removed
                /\ notifySubscribers("removeCheckpoint", At(removed, historyIndex).checkpoints,
                                     items, removed, historyIndex)
       ELSE /\ UNCHANGED history
            /\ Silent
    /\ UNCHANGED <<items, historyIndex, itemsRef, validationFn>>
    /\ last' = [op |-> "removeCheckpoint", arg |-> label,
                threw |-> ~IsEntry(history, historyIndex)]

\* variant of restoreCheckpoint that takes the checkpoint out of the entry
restoreCheckpointOnce(label) ==
    /\ IF IsEntry(history, historyIndex)
       THEN IF FindCheckpoint(listCheckpoints, label) # 0
            THEN LET checkpoint == listCheckpoints[FindCheckpoint(listCheckpoints, label)]
                 IN  /\ items' = checkpoint.items
                     /\ itemsRef' = NoRef
                     /\ history' = [history EXCEPT ![historyIndex + 1].checkpoints =
                                        SpliceJS(@, FindCheckpoint(@, label) - 1, 1, <<>>)]
                     /\ notifySubscribers("restoreCheckpoint", checkpoint, checkpoint.items,
                                          history', historyIndex)
            ELSE /\ UNCHANGED <<items, itemsRef, history>>
                 /\ notifySubscribers("restoreCheckpoint", Hole, items, history, historyIndex)
       ELSE /\ UNCHANGED <<items, itemsRef, history>>
            /\ Silent
    /\ UNCHANGED <<historyIndex, validationFn>>
    /\ last' = [op |-> "restoreCheckpoint", arg |-> label,
                threw |-> ~IsEntry(history, historyIndex)]

\* if (checkpoint) items = [...checkpoint.items]; then
\* notifySubscribers('restoreCheckpoint', checkpoint) whether one was found or
\* not (an undefined checkpoint is passed as Hole)
restoreCheckpoint(label) ==
    /\ IF IsEntry(history, historyIndex)
       THEN IF FindCheckpoint(listCheckpoints, label) # 0
            THEN LET checkpoint == listCheckpoints[FindCheckpoint(listCheckpoints, label)]
                 IN  /\ items' = checkpoint.items
                     /\ itemsRef' = NoRef
                     /\ notifySubscribers("restoreCheckpoint", checkpoint, checkpoint.items,
                                          history, historyIndex)
            ELSE /\ UNCHANGED <<items, itemsRef>>
                 /\ notifySubscribers("restoreCheckpoint", Hole, items, history, historyIndex)
       ELSE /\ UNCHANGED <<items, itemsRef>>
            /\ Silent
    /\ UNCHANGED <<history, historyIndex, validationFn>>
    /\ last' = [op |-> "restoreCheckpoint", arg |-> label,
                threw |-> ~IsEntry(history, historyIndex)]

\* historyActions.import(serialized)
importHistory(serialized) ==
    /\ IF serialized = Malformed
       THEN /\ UNCHANGED <<history, historyIndex, itemsRef>>     \* JSON.parse throws
            /\ Silent
       ELSE IF "json" \in DOMAIN serialized
       THEN LET imported == [i \in 1..Len(serialized.json) |-> ParseEntry(serialized.json[i])]
            IN  /\ history' = imported
                /\ historyIndex' = Len(imported) - 1
                /\ itemsRef' = NoRef
                /\ notifySubscribers("import", imported, items, imported, Len(imported) - 1)
       ELSE /\ history' = <<>>                                    \* the spread throws
            /\ itemsRef' = NoRef
            /\ UNCHANGED historyIndex
            /\ Silent
    /\ UNCHANGED <<items, validationFn>>
    /\ last' = [op |-> "import", arg |-> IF serialized = toJSON THEN "toJSON" ELSE "text",
                threw |-> "json" \notin DOMAIN serialized]

\* a limit that keeps the oldest entries instead of the most recent
limitOldest(size) ==
    /\ IF size < Len(history)
       THEN LET limited == SubSeq(history, 1, Max(size, 0))
            IN  /\ history' = limited
                /\ historyIndex' = Len(limited) - 1
                /\ itemsRef' = IF itemsRef < Len(limited) THEN itemsRef ELSE NoRef
                /\ notifySubscribers("limit", limited, items, limited, Len(limited) - 1)
       ELSE /\ UNCHANGED <<history, historyIndex, itemsRef>>
            /\ Silent
    /\ UNCHANGED <<items, validationFn>>
    /\ last' = [op |-> "limit", arg |-> size, threw |-> FALSE]

\* notifies only inside `if (size < history.length)`
limit(size) ==
    /\ IF size < Len(history)
       THEN LET removed == Min(Max(Len(history) - size, 0), Len(history))
                limited == SpliceJS(history, 0, Len(history) - size, <<>>)
            IN  /\ history' = limited
                /\ historyIndex' = Len(limited) - 1
                /\ itemsRef' = IF itemsRef >= removed THEN itemsRef - removed ELSE NoRef
                /\ notifySubscribers("limit", limited, items, limited, Len(limited) - 1)
       ELSE /\ UNCHANGED <<history, historyIndex, itemsRef>>
            /\ Silent
    /\ UNCHANGED <<items, validationFn>>
    /\ last' = [op |-> "limit", arg |-> size, threw |-> FALSE]

\* the loop written with --times: one step short
UndoTargetShort(times) ==
    IF times = 1 \/ historyIndex <= 0 THEN historyIndex
    ELSE IF times < 1 THEN 0
    ELSE Max(historyIndex - times + 1, 0)

\* while (times-- && historyIndex > 0) historyIndex--   (any non-zero times is truthy)
UndoTarget(times) ==
    IF times = 0 \/ historyIndex <= 0 THEN historyIndex
    ELSE IF times < 0 THEN 0
    ELSE Max(historyIndex - times, 0)

\* the loop without its stop at the last index
RedoTargetPast(times) ==
    IF times = 0 THEN historyIndex
    ELSE IF times < 0 THEN Len(history) - 1
    ELSE historyIndex + times

\* while (times-- && historyIndex < history.length - 1) historyIndex++
RedoTarget(times) ==
    IF times = 0 \/ historyIndex >= Len(history) - 1 THEN historyIndex
    ELSE IF times < 0 THEN Len(history) - 1
    ELSE Min(historyIndex + times, Len(history) - 1)

\* items = [...history[historyIndex].items]: a copy, or a throw with the cursor moved
CopyFrom(op, target, times) ==
    /\ historyIndex' = target
    /\ IF IsEntry(history, target)
       THEN /\ items' = At(history, target).items
            /\ itemsRef' = NoRef
            /\ notifySubscribers(op, At(history, target).items, At(history, target).items,
                                 history, target)
       ELSE /\ UNCHANGED <<items, itemsRef>>
            /\ Silent
    /\ UNCHANGED <<history, validationFn>>
    /\ last' = [op |-> op, arg |-> times,
                threw |-> ~IsEntry(history, target)]

undo(times) == CopyFrom("undo", UndoTarget(times), times)

redo(times) == CopyFrom("redo", RedoTarget(times), times)

hasChanges ==
    \E i \in 1..Len(items) :
        i > Len(At(history, historyIndex).items) \/ items[i] # At(history, historyIndex).items[i]

(* ----------------------------- lazy wrapper ----------------------------- *)
MaxQueue == 2        \* most calls recorded on the wrapper before evaluate()

\* a method that only reads the live array (getItems)
query(method) ==
    /\ UNCHANGED <<items, history, historyIndex, itemsRef, validationFn>>
    /\ Silent
    /\ last' = [op |-> method, arg |-> 0, threw |-> FALSE]

\* lazyWrapper[method](...args): actions.push({ method, args }); return lazyWrapper
record(method, args) ==
    /\ evaluating = 0
    /\ Len(actions) < MaxQueue
    /\ actions' = Append(actions, [method |-> method, args |-> args])
    /\ UNCHANGED <<items, history, historyIndex, itemsRef, validationFn, evaluating>>
    /\ Silent
    /\ last' = [op |-> "record", arg |-> method, threw |-> FALSE]

\* arrayActions[method](...args), the methods being the wrapped ones
Apply(action) ==
    \/ action.method = "push" /\ push(action.args)
    \/ action.method = "batchPush" /\ batchPush(action.args)
    \/ action.method = "pop" /\ pop
    \/ action.method = "getItems" /\ query("getItems")

\* evaluate() up to the first turn of actions.forEach: result = getItems();
\* with nothing recorded the loop body never runs and actions = [] ends it
evaluate ==
    /\ evaluating = 0
    /\ evaluating' = IF actions = <<>> THEN 0 ELSE 1
    /\ UNCHANGED <<items, history, historyIndex, itemsRef, validationFn, actions>>
    /\ Silent
    /\ last' = [op |-> "evaluate", arg |-> Len(actions), threw |-> FALSE]

\* a forEach that leaves the queue as it was
ReplayKept ==
    /\ evaluating > 0
    /\ Apply(actions[evaluating])
    /\ evaluating' = IF evaluating < Len(actions) THEN evaluating + 1 ELSE 0
    /\ UNCHANGED actions

\* one turn of actions.forEach inside evaluate(); the calls are synchronous,
\* so nothing else runs between the turns; after the last one actions = []
Replay ==
    /\ evaluating > 0
    /\ Apply(actions[evaluating])
    /\ IF evaluating < Len(actions)
       THEN evaluating' = evaluating + 1 /\ UNCHANGED actions
       ELSE evaluating' = 0 /\ actions' = <<>>

(* ------------------------------ inputs --------------------------------- *)
ItemArgs == {<<>>, <<1>>, <<2>>}
IndexArgs == {-1, 0, 1}
OptIndexArgs == {Omitted, <<1>>, <<-1>>}
EndArgs == {Omitted, <<1>>}
CountArgs == {Omitted, <<0>>, <<1>>}
AddArgs == {<<>>, <<1>>}
TimesArgs == -1..MaxHistory
ForeignHistory == [json |-> <<[items |-> <<1>>, checkpoints |-> <<[items |-> <<2>>]>>]>>]
ImportArgs == {toJSON, ForeignHistory, [json |-> <<>>], NotArray, Malformed}

\* one call of the public surface, counted
Call(A) ==
    /\ steps < MaxSteps
    /\ steps' = steps + 1
    /\ A
    /\ UNCHANGED <<actions, evaluating>>
    /\ UNCHANGED sc

Next ==
    \/ \E xs \in ItemArgs : Call(push(xs))
    \/ \E xs \in ItemArgs : Call(batchPush(xs))
    \/ Call(pop)
    \/ Call(shift)
    \/ \E xs \in ItemArgs : Call(unshift(xs))
    \/ \E start \in IndexArgs, deleteCount \in CountArgs, xs \in AddArgs :
            Call(splice(start, deleteCount, xs))
    \/ Call(reverse)
    \/ \E compareFn \in {Omitted, <<"desc">>} : Call(sort(compareFn))
    \/ \E value \in Elems, start \in OptIndexArgs, end \in EndArgs :
            Call(fill(value, start, end))
    \/ \E target \in {0, 1}, start \in IndexArgs, end \in EndArgs :
            Call(copyWithin(target, start, end))
    \/ \E fn \in {"gt1"} : Call(setValidation(fn))
    \/ \E jsonString \in {serialize, [json |-> <<>>], Malformed} : Call(deserialize(jsonString))
    \/ Call(previous)
    \/ Call(next)
    \/ Call(clean)
    \/ \E number \in -2..2 : Call(jump(number))
    \/ \E index \in -MaxJump..(MaxHistory - 1 + MaxJump) : Call(goTo(index))
    \/ \E label \in {"a", NoLabel} : Call(saveCheckpoint(label))
    \/ \E label \in Labels : Call(removeCheckpoint(label))
    \/ \E label \in Labels : Call(restoreCheckpoint(label))
    \/ \E serialized \in ImportArgs : Call(importHistory(serialized))
    \/ \E size \in -1..MaxHistory : Call(limit(size))
    \/ \E times \in TimesArgs : Call(undo(times))
    \/ \E times \in TimesArgs : Call(redo(times))

Spec == Init /\ [][Next]_vars

(* ------------------- scenario: mutate, undo, redo ------------------------ *)
\* A fresh instance takes n mutating calls, then undo(k); after that either
\* redo(k), or one more mutating call followed by redo().  sc keeps what the
\* scenario compares against: the constructor's items, the live items right
\* before the undo (after) and right after the diverging call (left).
MaxCalls == 3        \* mutating calls explored before the undo

InitUndoRedo ==
    /\ Create
    /\ sc = [phase |-> "mutating", n |-> 0, initial |-> items]

Mutate(A) ==
    /\ sc.phase = "mutating"
    /\ sc.n < MaxCalls
    /\ A
    /\ UNCHANGED steps
    /\ UNCHANGED <<actions, evaluating>>
    /\ sc' = [sc EXCEPT !.n = @ + 1]

Undo(k) ==
    /\ sc.phase = "mutating"
    /\ undo(k)
    /\ UNCHANGED steps
    /\ UNCHANGED <<actions, evaluating>>
    /\ sc' = [phase |-> "undone", n |-> sc.n, initial |-> sc.initial, k |-> k, after |-> items]

Redo ==
    /\ sc.phase = "undone"
    /\ redo(sc.k)
    /\ UNCHANGED steps
    /\ UNCHANGED <<actions, evaluating>>
    /\ sc' = [sc EXCEPT !.phase = "redone"]

Diverge(A) ==
    /\ sc.phase = "undone"
    /\ A
    /\ UNCHANGED steps
    /\ UNCHANGED <<actions, evaluating>>
    /\ sc' = [phase |-> "diverged", k |-> sc.k, left |-> items']

RedoOnce ==
    /\ sc.phase = "diverged"
    /\ redo(1)
    /\ UNCHANGED steps
    /\ UNCHANGED <<actions, evaluating>>
    /\ sc' = [sc EXCEPT !.phase = "rediverged"]

NextUndoRedo ==
    \/ \E xs \in ItemArgs : Mutate(push(xs))
    \/ \E xs \in ItemArgs : Mutate(batchPush(xs))
    \/ Mutate(pop)
    \/ Mutate(shift)
    \/ \E xs \in ItemArgs : Mutate(unshift(xs))
    \/ \E start \in IndexArgs, deleteCount \in CountArgs, xs \in AddArgs :
            Mutate(splice(start, deleteCount, xs))
    \/ Mutate(reverse)
    \/ \E compareFn \in {Omitted, <<"desc">>} : Mutate(sort(compareFn))
    \/ \E value \in Elems, start \in OptIndexArgs, end \in EndArgs :
            Mutate(fill(value, start, end))
    \/ \E target \in {0, 1}, start \in IndexArgs, end \in EndArgs :
            Mutate(copyWithin(target, start, end))
    \/ \E k \in 0..MaxCalls : Undo(k)
    \/ Redo
    \/ \E xs \in ItemArgs : Diverge(push(xs))
    \/ \E xs \in ItemArgs : Diverge(batchPush(xs))
    \/ Diverge(pop)
    \/ Diverge(shift)
    \/ \E xs \in ItemArgs : Diverge(unshift(xs))
    \/ \E start \in IndexArgs, deleteCount \in CountArgs, xs \in AddArgs :
            Diverge(splice(start, deleteCount, xs))
    \/ Diverge(reverse)
    \/ \E compareFn \in {Omitted, <<"desc">>} : Diverge(sort(compareFn))
    \/ \E value \in Elems, start \in OptIndexArgs, end \in EndArgs :
            Diverge(fill(value, start, end))
    \/ \E target \in {0, 1}, start \in IndexArgs, end \in EndArgs :
            Diverge(copyWithin(target, start, end))
    \/ RedoOnce

SpecUndoRedo == InitUndoRedo /\ [][NextUndoRedo]_vars

(* ------------------- scenario: save a checkpoint ------------------------- *)
\* After a few arbitrary calls a checkpoint is saved on the current entry;
\* then either the cursor is moved about (Navigate), or the live sequence is
\* changed and the checkpoint restored (Change, Restore).  sc keeps the
\* label, the index of the entry the checkpoint was saved on (at), the live
\* items at that moment (kept), the checkpoint lists all entries had right
\* before the save (lists), whether the cursor has since been on another
\* entry (away) and the number of changes made since (changes).
MaxSetup == 1        \* calls explored before the checkpoint is saved
MaxChanges == 1      \* mutating calls explored between save and restore

InitCheckpoint ==
    /\ Create
    /\ sc = [phase |-> "setup"]

Setup(A) ==
    /\ sc.phase = "setup"
    /\ steps < MaxSetup
    /\ A
    /\ steps' = steps + 1
    /\ UNCHANGED <<actions, evaluating>>
    /\ UNCHANGED sc

Save(label) ==
    /\ sc.phase = "setup"
    /\ IsEntry(history, historyIndex)
    /\ saveCheckpoint(label)
    /\ UNCHANGED steps
    /\ UNCHANGED <<actions, evaluating>>
    /\ sc' = [phase |-> "saved", label |-> label, at |-> historyIndex, kept |-> items,
              lists |-> [i \in 1..Len(history) |->
                            IF "items" \in DOMAIN history[i] THEN history[i].checkpoints ELSE <<>>],
              away |-> FALSE, changes |-> 0]

Navigate(A) ==
    /\ sc.phase \in {"saved", "navigated"}
    /\ A
    /\ UNCHANGED steps
    /\ UNCHANGED <<actions, evaluating>>
    /\ sc' = [sc EXCEPT !.phase = "navigated",
                        !.away = @ \/ (historyIndex' # sc.at /\ IsEntry(history', historyIndex'))]

Change(A) ==
    /\ sc.phase \in {"saved", "changed"}
    /\ sc.changes < MaxChanges
    /\ A
    /\ UNCHANGED steps
    /\ UNCHANGED <<actions, evaluating>>
    /\ sc' = [sc EXCEPT !.phase = "changed", !.changes = @ + 1]

Restore ==
    /\ sc.phase \in {"saved", "changed"}
    /\ restoreCheckpoint(sc.label)
    /\ UNCHANGED steps
    /\ UNCHANGED <<actions, evaluating>>
    /\ sc' = [sc EXCEPT !.phase = "restored"]

NextCheckpoint ==
    \/ \E xs \in ItemArgs : Setup(push(xs))
    \/ \E xs \in ItemArgs : Setup(batchPush(xs))
    \/ Setup(pop)
    \/ Setup(reverse)
    \/ \E number \in -2..2 : Setup(jump(number))
    \/ \E index \in -MaxJump..(MaxHistory - 1 + MaxJump) : Setup(goTo(index))
    \/ \E times \in TimesArgs : Setup(undo(times))
    \/ \E label \in {"a", NoLabel} : Setup(saveCheckpoint(label))
    \/ \E label \in Labels : Save(label)
    \/ Navigate(previous)
    \/ Navigate(next)
    \/ \E number \in -2..2 : Navigate(jump(number))
    \/ \E index \in -MaxJump..(MaxHistory - 1 + MaxJump) : Navigate(goTo(index))
    \/ \E times \in TimesArgs : Navigate(undo(times))
    \/ \E times \in TimesArgs : Navigate(redo(times))
    \/ \E xs \in ItemArgs : Change(push(xs))
    \/ \E xs \in ItemArgs : Change(batchPush(xs))
    \/ Change(pop)
    \/ Change(shift)
    \/ \E xs \in ItemArgs : Change(unshift(xs))
    \/ \E start \in IndexArgs, deleteCount \in CountArgs, xs \in AddArgs :
            Change(splice(start, deleteCount, xs))
    \/ Change(reverse)
    \/ \E compareFn \in {Omitted, <<"desc">>} : Change(sort(compareFn))
    \/ \E value \in Elems, start \in OptIndexArgs, end \in EndArgs :
            Change(fill(value, start, end))
    \/ \E target \in {0, 1}, start \in IndexArgs, end \in EndArgs :
            Change(copyWithin(target, start, end))
    \/ Restore

SpecCheckpoint == InitCheckpoint /\ [][NextCheckpoint]_vars

(* ----------------------- scenario: admission ---------------------------- *)
\* push and batchPush called with every list of up to MaxBatch items, with
\* and without a validation predicate
MaxBatch == 2        \* most items explored in one push/batchPush

BatchArgs == UNION {[1..n -> 1..3] : n \in 0..MaxBatch}

NextAdmission ==
    \/ \E xs \in BatchArgs : Call(push(xs))
    \/ \E xs \in BatchArgs : Call(batchPush(xs))
    \/ \E fn \in {"gt1"} : Call(setValidation(fn))
    \/ Call(pop)

SpecAdmission == Init /\ [][NextAdmission]_vars

(* ----------------------- scenario: listeners ---------------------------- *)
\* An instance whose caller registers listeners and then makes up to
\* MaxEvents other calls.  Calls on the registry are not counted: the
\* registry is bounded by MaxListeners.
MaxEvents == 2       \* calls explored besides those on the registry

InitListeners ==
    /\ Create
    /\ sc = [phase |-> "listening"]

\* a call on the registry of listeners
Register(A) ==
    /\ A
    /\ UNCHANGED <<actions, evaluating>>
    /\ UNCHANGED <<steps, sc>>

\* any other call, counted
Event(A) ==
    /\ steps < MaxEvents
    /\ steps' = steps + 1
    /\ A
    /\ UNCHANGED <<actions, evaluating>>
    /\ UNCHANGED sc

\* a plain listener watching every kind of call that notifies or fails
NextObserved ==
    \/ \E listener \in {"f"} : Register(addListener(listener))
    \/ \E xs \in {<<1>>, <<2>>} : Event(push(xs))
    \/ \E xs \in {<<2>>} : Event(batchPush(xs))
    \/ Event(pop)
    \/ Event(shift)
    \/ \E xs \in {<<1>>} : Event(unshift(xs))
    \/ \E start \in {0}, deleteCount \in {<<1>>}, xs \in AddArgs :
            Event(splice(start, deleteCount, xs))
    \/ Event(reverse)
    \/ \E compareFn \in {Omitted} : Event(sort(compareFn))
    \/ \E value \in {1}, start \in {Omitted}, end \in {Omitted} :
            Event(fill(value, start, end))
    \/ \E target \in {0}, start \in {1}, end \in {Omitted} :
            Event(copyWithin(target, start, end))
    \/ \E jsonString \in {[json |-> <<>>], Malformed} : Event(deserialize(jsonString))
    \/ \E number \in {-1, 1} : Event(jump(number))
    \/ \E index \in -MaxJump..(MaxHistory - 1 + MaxJump) : Event(goTo(index))
    \/ \E label \in {"a"} : Event(saveCheckpoint(label))
    \/ \E label \in Labels : Event(removeCheckpoint(label))
    \/ \E label \in Labels : Event(restoreCheckpoint(label))
    \/ \E size \in 0..MaxHistory : Event(limit(size))
    \/ \E times \in {1} : Event(undo(times))

SpecObserved == InitListeners /\ [][NextObserved]_vars

\* listeners of every kind coming and going between calls that broadcast
\* through notifyListeners (push, batchPush) and notifySubscribers (undo, goTo)
NextRegistry ==
    \/ \E listener \in ListenerFns : Register(addListener(listener))
    \/ \E listener \in {"f"} : Register(subscribe(listener))
    \/ \E listener \in ListenerFns : Register(remove(listener))
    \/ \E xs \in {<<2>>} : Event(push(xs))
    \/ \E xs \in {<<2>>} : Event(batchPush(xs))
    \/ \E times \in {1} : Event(undo(times))
    \/ \E index \in {0, MaxHistory} : Event(goTo(index))

SpecRegistry == InitListeners /\ [][NextRegistry]_vars

(* ------------------ scenario: arguments kept in range -------------------- *)
\* Every call of the history surface with the arguments its contract asks
\* for: jump and goTo to an index that holds an entry, limit to at least one
\* entry, import of an exported or foreign list with at least one entry, undo
\* and redo with any count.
InRange(index) == 0 <= index /\ index < Len(history)

NextInRange ==
    \/ \E xs \in ItemArgs : Call(push(xs))
    \/ \E xs \in {<<2>>} : Call(batchPush(xs))
    \/ Call(pop)
    \/ Call(shift)
    \/ \E xs \in {<<1>>} : Call(unshift(xs))
    \/ \E start \in {0}, deleteCount \in {<<1>>}, xs \in AddArgs :
            Call(splice(start, deleteCount, xs))
    \/ Call(reverse)
    \/ \E compareFn \in {Omitted} : Call(sort(compareFn))
    \/ \E value \in {1}, start \in {Omitted}, end \in {Omitted} :
            Call(fill(value, start, end))
    \/ \E target \in {0}, start \in {1}, end \in {Omitted} :
            Call(copyWithin(target, start, end))
    \/ \E jsonString \in {[json |-> <<>>], Malformed} : Call(deserialize(jsonString))
    \/ Call(previous)
    \/ Call(next)
    \/ Call(clean)
    \/ \E number \in -MaxHistory..MaxHistory :
            Call(InRange(historyIndex + number) /\ jump(number))
    \/ \E index \in 0..MaxHistory : Call(InRange(index) /\ goTo(index))
    \/ \E label \in {"a"} : Call(saveCheckpoint(label))
    \/ \E label \in Labels : Call(removeCheckpoint(label))
    \/ \E label \in Labels : Call(restoreCheckpoint(label))
    \/ \E serialized \in {toJSON, ForeignHistory} :
            Call(serialized.json # <<>> /\ importHistory(serialized))
    \/ \E size \in 1..MaxHistory : Call(limit(size))
    \/ \E times \in TimesArgs : Call(undo(times))
    \/ \E times \in TimesArgs : Call(redo(times))

SpecInRange == Init /\ [][NextInRange]_vars

(* --------------------- scenario: the lazy wrapper ------------------------ *)
\* One wrapper taken with lazy() from a fresh instance: direct calls and
\* calls recorded on the wrapper in any order, with or without a listener
\* watching; then evaluate(), and evaluate() once more right after it.  sc
\* keeps what the first evaluate() started from: the queue, the live items,
\* the cursor.
InitLazy ==
    /\ Create
    /\ sc = [phase |-> "recording"]

LazyArgs ==
    {[method |-> "push", args |-> <<2>>], [method |-> "batchPush", args |-> <<2>>],
     [method |-> "pop", args |-> <<>>], [method |-> "getItems", args |-> <<>>]}

Record(action) ==
    /\ sc.phase = "recording"
    /\ record(action.method, action.args)
    /\ UNCHANGED <<steps, sc>>

Evaluate ==
    /\ sc.phase = "recording"
    /\ evaluate
    /\ UNCHANGED steps
    /\ sc' = [phase |-> IF actions = <<>> THEN "evaluated" ELSE "evaluating",
              queue |-> actions, items |-> items, cursor |-> historyIndex]

Turn ==
    /\ sc.phase = "evaluating"
    /\ Replay
    /\ UNCHANGED steps
    /\ sc' = [sc EXCEPT !.phase = IF evaluating' = 0 THEN "evaluated" ELSE "evaluating"]

EvaluateAgain ==
    /\ sc.phase = "evaluated"
    /\ evaluate
    /\ UNCHANGED steps
    /\ sc' = [sc EXCEPT !.phase = "repeated"]

NextLazy ==
    \/ \E listener \in {"f"} :
            Register(sc.phase = "recording" /\ listeners = <<>> /\ addListener(listener))
    \/ \E xs \in {<<1>>} : Event(sc.phase = "recording" /\ push(xs))
    \/ \E times \in {1} : Event(sc.phase = "recording" /\ undo(times))
    \/ \E action \in LazyArgs : Record(action)
    \/ Evaluate
    \/ Turn
    \/ EvaluateAgain

SpecLazy == InitLazy /\ [][NextLazy]_vars

(* ------------------------------ claims ---------------------------------- *)
MutatingMethods ==
    {"push", "pop", "shift", "unshift", "splice", "reverse", "sort", "fill", "copyWithin"}
SequenceMutations == MutatingMethods \cup {"batchPush"}
Navigations == {"previous", "next", "jump", "goTo", "undo", "redo"}

\* C1: in every reachable state the history is non-empty and the cursor
\* satisfies 0 <= cursor < length(entries), whatever the arguments were.
C1_CursorInEntries ==
    /\ history # <<>>
    /\ 0 <= historyIndex
    /\ historyIndex < Len(history)

\* C2: a mutation of the live sequence changes the snapshot of no history
\* entry that existed before it and is still there after it.
C2_PastSnapshotsUntouched ==
    [][last'.op \in SequenceMutations =>
        LET kept == IF last'.op = "batchPush" THEN Len(history) ELSE Len(history') - 1
        IN  \A i \in 1..kept :
                "items" \in DOMAIN history[i] => history'[i].items = history[i].items]_vars

\* C6: when a mutating operation (batch append included) has returned, the
\* cursor is on the last entry and that entry's snapshot is the live sequence.
C6_MutationRecorded ==
    last.op \in SequenceMutations =>
        /\ historyIndex = Len(history) - 1
        /\ IsEntry(history, historyIndex)
        /\ At(history, historyIndex).items = getItems

\* C7: after previous() with cursor > 0, next() with cursor < last index and
\* after jump, goTo, undo, redo with a target in range, the live sequence
\* equals entries[cursor].snapshot.
C7_LiveFollowsCursor ==
    ( /\ IsEntry(history, historyIndex)
      /\ \/ last.op \in {"jump", "goTo", "undo", "redo"}
         \/ last.op = "previous" /\ last.arg > 0
         \/ last.op = "next" /\ last.arg < Len(history) - 1 )
    => getItems = At(history, historyIndex).items

\* every slot of the history holds an entry object
AllEntries(h) == \A i \in 1..Len(h) : "items" \in DOMAIN h[i]

\* C10 (as claimed): import(toJSON()) leaves the entries and the cursor as
\* they were before the export, also when the cursor was not on the last entry.
C10_RoundTripRestoresCursor ==
    [][(last'.op = "import" /\ last'.arg = "toJSON") =>
        history' = history /\ historyIndex' = historyIndex]_vars

\* C10 (amended): when every history slot holds an entry, import(toJSON())
\* leaves the entries (snapshots, checkpoints, order) as they were and puts
\* the cursor on the last entry.
C10_RoundTripEntries ==
    [][(last'.op = "import" /\ last'.arg = "toJSON" /\ AllEntries(history)) =>
        history' = history /\ historyIndex' = Len(history) - 1]_vars

C10_Witness ==
    /\ last.op = "import" /\ last.arg = "toJSON"
    /\ Len(history) = 2 /\ historyIndex = 1
    /\ AllEntries(history)
    /\ \E i \in 1..2 : history[i].checkpoints # <<>> /\ history[i].checkpoints[1].label = "a"

\* C3: on a fresh instance, n mutating calls followed by undo(n) leave the
\* live sequence equal to the elements given at construction.
C3_UndoAllRestoresInitial ==
    (sc.phase = "undone" /\ sc.k = sc.n) => getItems = sc.initial

C3_Witness ==
    /\ sc.phase = "undone" /\ sc.k = sc.n /\ sc.n >= 2
    /\ last.op = "undo"
    /\ Len(history) = 3 /\ historyIndex = 0
    /\ sc.after # sc.initial
    /\ getItems = sc.initial

\* C4: after n mutating calls and undo(n), redo(n) makes the live sequence
\* equal to what it was right after the n-th call.
C4_RedoAllRestoresLatest ==
    (sc.phase = "redone" /\ sc.k = sc.n) => getItems = sc.after

\* C5: after undo(k), k >= 1, and one new mutation there is no history entry
\* beyond the cursor, and a following redo() leaves the live sequence as the
\* mutation left it.
C5_MutationDropsFuture ==
    /\ (sc.phase = "diverged" /\ sc.k >= 1) => historyIndex = Len(history) - 1
    /\ (sc.phase = "rediverged" /\ sc.k >= 1) => getItems = sc.left

\* C8: after saveCheckpoint(L) and any changes made through the mutating
\* array operations, restoreCheckpoint(L) sets the live sequence back to the
\* contents it had when the checkpoint was saved.
C8_RestoreAfterChanges ==
    sc.phase = "restored" => getItems = sc.kept

\* C9: while only navigation follows the save, the checkpoint saved on entry
\* E is listed when the cursor is on E, last in E's list with its label and
\* snapshot, and on any other entry listCheckpoints() is the list that entry
\* had before the save, to which nothing was added.
C9_CheckpointScopedToEntry ==
    (sc.phase \in {"saved", "navigated"} /\ IsEntry(history, historyIndex)) =>
        IF historyIndex = sc.at
        THEN listCheckpoints = Append(sc.lists[sc.at + 1], [label |-> sc.label, items |-> sc.kept])
        ELSE listCheckpoints = sc.lists[historyIndex + 1]

C9_Witness ==
    /\ sc.phase = "navigated" /\ sc.away
    /\ last.op \in Navigations
    /\ historyIndex = sc.at
    /\ Len(history) >= 2
    /\ listCheckpoints = <<[label |-> sc.label, items |-> sc.kept]>>

C12_HasChangesExact ==
    IsEntry(history, historyIndex) =>
        (hasChanges <=> getItems # At(history, historyIndex).items)

\* C20: each call of push, pop, shift, unshift, splice, reverse, sort, fill or
\* copyWithin made with the cursor at c leaves a history of exactly c + 2
\* entries with the cursor at c + 1, whose last entry holds the live sequence
\* and no checkpoint, also when the call changed nothing.
C20_MutationAppendsAtCursor ==
    last.op \in MutatingMethods =>
        /\ Len(history) = last.at + 2
        /\ historyIndex = last.at + 1
        /\ IsEntry(history, Len(history) - 1)
        /\ history[Len(history)].items = getItems
        /\ history[Len(history)].checkpoints = <<>>

\* the validation predicate applied to one item
Satisfies(fn, x) == fn = "gt1" => x > 1

\* C13: with a validation predicate set, push(x1..xk) and batchPush([x1..xk])
\* append to the live sequence exactly the xi that satisfy the predicate, in
\* input order, leave the elements already present as they were, raise no
\* error, and push returns the new length.
C13_AppendsAdmittedInOrder ==
    [][(last'.op \in {"push", "batchPush"} /\ validationFn # NoValidation) =>
        LET Passes(x) == Satisfies(validationFn, x)
        IN  /\ getItems' = getItems \o SelectSeq(last'.arg, Passes)
            /\ ~last'.threw
            /\ last'.op = "push" => last'.returned = <<Len(getItems')>>]_vars

C13_Witness ==
    /\ last.op = "push" /\ last.arg = <<1, 3>>
    /\ validationFn = "gt1"
    /\ getItems = <<2, 3>>
    /\ last.returned = <<2>>

\* C14: restoreCheckpoint(label) and removeCheckpoint(label) with a label that
\* matches no checkpoint of the current entry change nothing (live sequence,
\* entries, checkpoints, cursor) and call no listener.
C14_UnknownLabelIsSilent ==
    [][( /\ last'.op \in {"restoreCheckpoint", "removeCheckpoint"}
         /\ IsEntry(history, historyIndex)
         /\ \A i \in 1..Len(listCheckpoints) : listCheckpoints[i].label # last'.arg ) =>
        /\ getItems' = getItems
        /\ history' = history
        /\ historyIndex' = historyIndex
        /\ notes' = <<>>]_vars

MutationEvents ==
    {"add", "remove", "shift", "unshift", "splice", "reverse", "sort", "fill", "copyWithin"}

\* C15: whenever a listener is called for a mutation event, the history has
\* already been updated for that mutation: at that moment the cursor is on
\* the last entry and that entry's snapshot is the sequence passed to the
\* listener.
C15_NotifiedAfterRecording ==
    \A i \in 1..Len(notes) :
        notes[i].event \in MutationEvents =>
            /\ notes[i].cursor = notes[i].length - 1
            /\ notes[i].snapshot = <<notes[i].payload>>

RegistryCalls == {"addListener", "subscribe", "remove"}

\* the positions of the calls that a broadcast made to `listener`
CallsTo(called, listener) ==
    {i \in 1..Len(called) : called[i].to = listener /\ called[i].event # "initialize"}

\* the position of a listener registered exactly once
PositionOf(ls, listener) == CHOOSE i \in 1..Len(ls) : ls[i] = listener

\* C16: for every broadcast, each listener that is registered (once) when the
\* broadcast starts and still registered when it ends is called exactly once
\* for the event, and such listeners are called in registration order, also
\* when a listener unsubscribes or calls addListener from inside its callback.
C16_BroadcastReachesEveryListener ==
    [][(last'.op \notin RegistryCalls /\ notes' # <<>>) =>
        LET Stays(l) == /\ Cardinality({i \in 1..Len(listeners) : listeners[i] = l}) = 1
                        /\ Registered(listeners', l)
        IN  /\ \A l \in ListenerFns : Stays(l) => Cardinality(CallsTo(notes', l)) = 1
            /\ \A l1, l2 \in ListenerFns :
                 ( /\ Stays(l1) /\ Stays(l2)
                   /\ PositionOf(listeners, l1) < PositionOf(listeners, l2)
                   /\ CallsTo(notes', l1) # {} /\ CallsTo(notes', l2) # {} ) =>
                 \A i \in CallsTo(notes', l1), j \in CallsTo(notes', l2) : i < j]_vars

\* C17: addListener(fn) calls fn exactly once at once, with 'initialize' and
\* the current live sequence; and once the remove function it returned has
\* been called, fn is not called for a later event, however many times fn had
\* been registered.
C17_RemovedListenerIsSilent ==
    [][/\ last'.op = "addListener" =>
            notes' = <<Seen(last'.arg, "initialize", getItems, history, historyIndex)>>
       /\ (last.op = "remove" /\ last'.op \notin RegistryCalls) =>
            \A i \in 1..Len(notes') : notes'[i].to # last.arg]_vars

\* C18: jump(n) with cursor + n outside [0, length(entries)) and goTo(i) with
\* i outside that range fail with an error thrown to the caller, call no
\* listener, leave the live sequence unchanged and leave the cursor on the
\* out-of-range target.
C18_OutOfRangeMoveThrows ==
    [][( /\ last'.op \in {"jump", "goTo"}
         /\ (last'.arg < 0 \/ last'.arg >= Len(history)) ) =>
        /\ last'.threw
        /\ notes' = <<>>
        /\ getItems' = getItems
        /\ historyIndex' = last'.arg]_vars

C18_Witness ==
    /\ last.op = "goTo" /\ last.arg = Len(history) /\ Len(history) = 2
    /\ last.threw
    /\ historyIndex = Len(history)
    /\ listeners # <<>>
    /\ getItems # <<>>

\* C19: deserialize(text) with malformed text throws nothing, calls no
\* listener and leaves the live sequence, the entries and the cursor as they
\* were.
C19_MalformedDeserializeIsNoOp ==
    [][(last'.op = "deserialize" /\ last'.arg = 0) =>
        /\ ~last'.threw
        /\ notes' = <<>>
        /\ getItems' = getItems
        /\ history' = history
        /\ historyIndex' = historyIndex]_vars

C19_Witness ==
    /\ last.op = "deserialize" /\ last.arg = 0
    /\ listeners # <<>>
    /\ getItems # <<>>
    /\ Len(history) = 2

\* C21: for every integer times (0 and negative values included) undo(times)
\* lowers the cursor by exactly min(max(times, 0), cursor) and redo(times)
\* raises it by exactly min(max(times, 0), lastIndex - cursor); afterwards the
\* live sequence equals entries[cursor].snapshot.
C21_UndoRedoStepCount ==
    [][( /\ last'.op \in {"undo", "redo"}
         /\ 0 <= historyIndex /\ historyIndex < Len(history) ) =>
        LET wanted == Max(last'.arg, 0)
            lastIndex == Len(history) - 1
        IN  /\ last'.op = "undo" => historyIndex' = historyIndex - Min(wanted, historyIndex)
            /\ last'.op = "redo" => historyIndex' = historyIndex + Min(wanted, lastIndex - historyIndex)
            /\ IsEntry(history', historyIndex') =>
                    getItems' = At(history', historyIndex').items]_vars


\* C22: from every reachable state clean() leaves exactly one entry, the entry
\* that was at index 0 before the call (with its checkpoints), sets the cursor
\* to 0 and leaves the live sequence unchanged.
C22_CleanKeepsFirstEntry ==
    [][last'.op = "clean" =>
        /\ history # <<>>
        /\ IsEntry(history, 0)
        /\ history' = <<history[1]>>
        /\ historyIndex' = 0
        /\ getItems' = getItems]_vars

\* C26: an import(serialized) that fails with an error (text that does not
\* parse, or that parses to something that is not a list of entries) leaves
\* the entries and the cursor exactly as before and invokes no listener.
C26_FailedImportChangesNothing ==
    [][(last'.op = "import" /\ last'.threw) =>
        /\ history' = history
        /\ historyIndex' = historyIndex
        /\ notes' = <<>>]_vars


C25_InRangeCallsKeepCursor ==
    /\ Len(history) >= 1
    /\ historyIndex \in 0..(Len(history) - 1)
    /\ IsEntry(history, historyIndex)

\* the cursor taken to the first of three entries by a negative undo count
C25_Witness ==
    /\ last.op = "undo"
    /\ last.arg < 0
    /\ historyIndex = 0
    /\ Len(history) = 3


\* what the recorded calls, made one after the other, leave of the array xs
RECURSIVE Replayed(_, _)
Replayed(xs, queue) ==
    IF queue = <<>> THEN xs
    ELSE LET action == Head(queue)
             Passes(x) == Satisfies(validationFn, x)
         IN  Replayed(CASE action.method \in {"push", "batchPush"} ->
                                xs \o SelectSeq(action.args, Passes)
                        [] action.method = "pop" -> SubSeq(xs, 1, Len(xs) - 1)
                        [] OTHER -> xs,
                      Tail(queue))

Recorded(queue) == {i \in 1..Len(queue) : queue[i].method \in MutatingMethods}

====
